---- MODULE Spec2Model ----
(***************************************************************************)
(* Model of the conversation controller of run-wild (src/src/openai.rs):   *)
(* struct Conversation, Conversation::request_action and                   *)
(* Conversation::enforce_context_length.                                   *)
(*                                                                         *)
(* Option<T> is modelled as a sequence of length at most one: None is <<>> *)
(* and Some(x) is <<x>>.  Text is modelled as a sequence of tokens, so     *)
(* that parsing and formatting are computed and not assumed.               *)
(***************************************************************************)
EXTENDS Integers, Sequences, FiniteSets, TLC

VARIABLES goal, url, messages, pc, arg, response, result, action,
          maintained, requests, submitted

vars == <<goal, url, messages, pc, arg, response, result, action,
          maintained, requests, submitted>>

None == <<>>
Some(x) == <<x>>
Last(s) == s[Len(s)]

(***************************************************************************)
(* Bounds of the model.                                                    *)
(***************************************************************************)
\* A new call is started only while history holds at most MaxHistory entries.
MaxHistory == 5
\* The completion service returns at most MaxChoices choices.
MaxChoices == 2

(***************************************************************************)
(* Default for Conversation (openai.rs 25-51).                             *)
(***************************************************************************)
DefaultGoal == "Visit 10 webpages."

SystemMessage ==
  [role |-> "system",
   content |-> <<"You are an agent controlling a browser. [...] You must respond with ONLY one of the following commands AND NOTHING ELSE: CLICK X, TYPE X \"TEXT\", GOAL \"TEXT\"">>]

(***************************************************************************)
(* Url::parse of the url crate, on tokenised text (openai.rs 111).         *)
(* A URL text is scheme ":" followed, for an authority, by "//" host       *)
(* [":" port] and then path tokens.                                        *)
(***************************************************************************)
Lower(t) ==
  CASE t = "A.example" -> "a.example"
    [] t = "HTTP" -> "http"
    [] OTHER -> t

Schemes == {"http", "https", "mailto", "data"}
SpecialSchemes == {"http", "https"}
Ports == {"80", "8080"}

SubSeqFrom(s, i) == IF i > Len(s) THEN <<>> ELSE SubSeq(s, i, Len(s))

\* Ok(url) is [ok |-> TRUE, url |-> ...]; Err(e) is [ok |-> FALSE, err |-> e].
ParseAuthority(scheme, rest) ==
  \* rest: the tokens after "//"
  IF rest = <<>> \/ rest[1] = "/" \/ rest[1] = ":"
    THEN IF scheme \in SpecialSchemes
           THEN [ok |-> FALSE, err |-> "EmptyHost"]
           ELSE [ok |-> TRUE,
                 url |-> [scheme |-> scheme, host |-> None, port |-> None,
                          path |-> rest]]
    ELSE IF Len(rest) >= 2 /\ rest[2] = ":"
      THEN IF Len(rest) >= 3 /\ rest[3] \in Ports
             THEN [ok |-> TRUE,
                   url |-> [scheme |-> scheme, host |-> Some(Lower(rest[1])),
                            port |-> Some(rest[3]),
                            path |-> SubSeqFrom(rest, 4)]]
             ELSE [ok |-> FALSE, err |-> "InvalidPort"]
      ELSE [ok |-> TRUE,
            url |-> [scheme |-> scheme, host |-> Some(Lower(rest[1])),
                     port |-> None, path |-> SubSeqFrom(rest, 2)]]

UrlParse(text) ==
  IF Len(text) < 2 \/ Lower(text[1]) \notin Schemes \/ text[2] # ":"
    THEN [ok |-> FALSE, err |-> "RelativeUrlWithoutBase"]
    ELSE LET scheme == Lower(text[1])
             rest == SubSeqFrom(text, 3)
         IN IF rest # <<>> /\ rest[1] = "//"
              THEN ParseAuthority(scheme, SubSeqFrom(rest, 2))
              ELSE IF scheme \in SpecialSchemes
                THEN [ok |-> FALSE, err |-> "EmptyHost"]
                ELSE [ok |-> TRUE,
                      url |-> [scheme |-> scheme, host |-> None,
                               port |-> None, path |-> rest]]

\* Url::host
UrlHost(u) == u.host

\* Option<&Url>::map(Url::host)
MapHost(o) == IF o = None THEN None ELSE Some(UrlHost(o[1]))

(***************************************************************************)
(* Inputs of request_action: the URL texts and page contents a caller may  *)
(* pass.                                                                   *)
(***************************************************************************)
UrlTexts ==
  { <<"https", ":", "//", "a.example", "/", "page1">>,
    <<"HTTP", ":", "//", "A.example", ":", "8080", "/", "page2">>,
    <<"https", ":", "//", "b.example", "/", "x">>,
    <<"mailto", ":", "agent@a.example">>,
    <<"data", ":", "text/plain,hi">>,
    <<"a.example", "/", "page1">>,
    <<"https", ":", "//">> }

PageContents == { <<"<p id=0>hi</p>">> }

(***************************************************************************)
(* The completion service (async_openai Client::chat().create).            *)
(* A response is [usage: Option<Usage>, choices: Vec<Choice>]; a choice    *)
(* carries one message [role, content].                                    *)
(***************************************************************************)
ReplyMessages ==
  { [role |-> "assistant", content |-> <<"CLICK", "0">>],
    [role |-> "assistant", content |-> <<" ", "GOAL", "\"find pricing\"", "\n">>],
    [role |-> "assistant", content |-> <<"Sure,", "CLICK", "0">>],
    [role |-> "system", content |-> <<"TYPE", "5", "\"hello\"">>] }

Usages == { None, Some([total_tokens |-> 42]) }

ChoiceLists ==
  UNION { [1..n -> ReplyMessages] : n \in 0..MaxChoices }

Responses == [usage : Usages, choices : ChoiceLists]

(***************************************************************************)
(* The Action Decoder (TryFrom<String> for crate::Action): one of          *)
(* CLICK <id>, TYPE <id> "<text>", GOAL "<text>", surrounding whitespace   *)
(* tolerated; anything else is a decode failure.                           *)
(***************************************************************************)
Whitespace == {" ", "\n"}

RECURSIVE TrimStart(_)
TrimStart(s) ==
  IF s # <<>> /\ s[1] \in Whitespace THEN TrimStart(Tail(s)) ELSE s

RECURSIVE TrimEnd(_)
TrimEnd(s) ==
  IF s # <<>> /\ Last(s) \in Whitespace
    THEN TrimEnd(SubSeq(s, 1, Len(s) - 1))
    ELSE s

Trim(s) == TrimEnd(TrimStart(s))

IdValue(t) ==
  CASE t = "0" -> Some(0)
    [] t = "3" -> Some(3)
    [] t = "5" -> Some(5)
    [] OTHER -> None

Unquote(t) ==
  CASE t = "\"hello\"" -> Some("hello")
    [] t = "\"find pricing\"" -> Some("find pricing")
    [] OTHER -> None

\* Some(action) on success, None on a decode failure.
Decode(content) ==
  LET t == Trim(content) IN
  IF Len(t) = 2 /\ t[1] = "CLICK" /\ IdValue(t[2]) # None
    THEN Some([kind |-> "Click", id |-> IdValue(t[2])[1], text |-> ""])
  ELSE IF Len(t) = 3 /\ t[1] = "TYPE" /\ IdValue(t[2]) # None
          /\ Unquote(t[3]) # None
    THEN Some([kind |-> "Type", id |-> IdValue(t[2])[1],
               text |-> Unquote(t[3])[1]])
  ELSE IF Len(t) = 2 /\ t[1] = "GOAL" /\ Unquote(t[2]) # None
    THEN Some([kind |-> "Goal", id |-> 0, text |-> Unquote(t[2])[1]])
  ELSE None

(***************************************************************************)
(* Conversation::enforce_context_length (openai.rs 110-120).               *)
(***************************************************************************)
\* self.messages.drain(..1).collect(): the drained first element.
DrainRest(msgs) == SubSeqFrom(msgs, 2)
DrainNothing(msgs) == <<>>
Drain1(msgs) == SubSeq(msgs, 1, 1)

\* self.url.as_ref().map(Url::host) != Some(new_url.host())
\* A variant that treats a URL without a host as a host change.
HostChangedOrAbsent(selfUrl, newUrl) ==
  \/ UrlHost(newUrl) = None
  \/ MapHost(selfUrl) # Some(UrlHost(newUrl))
HostSame(selfUrl, newUrl) == MapHost(selfUrl) = Some(UrlHost(newUrl))
UrlChanged(selfUrl, newUrl) == selfUrl # Some(newUrl)
HostChanged(selfUrl, newUrl) == MapHost(selfUrl) # Some(UrlHost(newUrl))

\* A variant that never executes self.url = Some(new_url).
enforce_context_length_nostore(selfUrl, selfMessages, text) ==
  LET parsed == UrlParse(text) IN
  IF ~parsed.ok
    THEN [ok |-> FALSE, url |-> selfUrl, messages |-> selfMessages]
    ELSE [ok |-> TRUE, url |-> selfUrl,
          messages |-> IF HostChanged(selfUrl, parsed.url)
                         THEN Drain1(selfMessages)
                         ELSE selfMessages]
\* The effect on (self.url, self.messages) and whether Ok(()) is returned.
enforce_context_length_eager(selfUrl, selfMessages, text) ==
  LET parsed == UrlParse(text) IN
  IF ~parsed.ok
    THEN [ok |-> FALSE, url |-> None, messages |-> Drain1(selfMessages)]
    ELSE [ok |-> TRUE, url |-> Some(parsed.url),
          messages |-> IF HostChanged(selfUrl, parsed.url)
                         THEN Drain1(selfMessages)
                         ELSE selfMessages]
enforce_context_length(selfUrl, selfMessages, text) ==
  LET parsed == UrlParse(text) IN
  IF ~parsed.ok
    THEN [ok |-> FALSE, url |-> selfUrl, messages |-> selfMessages]
    ELSE [ok |-> TRUE, url |-> Some(parsed.url),
          messages |-> IF HostChanged(selfUrl, parsed.url)
                         THEN Drain1(selfMessages)
                         ELSE selfMessages]

(***************************************************************************)
(* Conversation::request_action (openai.rs 62-108).                        *)
(***************************************************************************)
\* The User message pushed at lines 65-72.
UserMessage(g, text, page) ==
  [role |-> "user",
   content |-> <<"OBJECTIVE: ", g, "\nCURRENT URL: ", text,
                 "\nPAGE CONTENT: ", page>>]

\* response.choices.get(0)
LastChoice(choices) == IF choices = <<>> THEN None ELSE Some(Last(choices))
FirstChoice(choices) == IF choices = <<>> THEN None ELSE Some(choices[1])

\* A variant that labels every reply as an Assistant message.
ReplyMessageAssistant(m) == [role |-> "assistant", content |-> m.content]
\* The message pushed at lines 101-105.
ReplyMessage(m) == [role |-> m.role, content |-> m.content]

Init ==
  /\ goal = DefaultGoal
  /\ url = None
  /\ messages = <<SystemMessage>>
  /\ pc = "idle"
  /\ arg = None
  /\ response = None
  /\ result = "None"
  /\ action = None
  /\ maintained = <<SystemMessage>>
  /\ requests = 0
  /\ submitted = <<>>

\* Line 63: the call starts and runs enforce_context_length(url)?.
request_action ==
  /\ pc = "idle"
  /\ Len(messages) <= MaxHistory
  /\ \E text \in UrlTexts, page \in PageContents :
       LET r == enforce_context_length(url, messages, text) IN
         /\ arg' = Some([url |-> text, page_content |-> page])
         /\ url' = r.url
         /\ messages' = r.messages
         /\ maintained' = r.messages
         /\ response' = None
         /\ requests' = 0
         /\ IF r.ok
              THEN /\ pc' = "push"
                   /\ UNCHANGED <<result, action>>
              ELSE /\ pc' = "idle"
                   /\ result' = "InvalidUrl"
                   /\ action' = None
  /\ UNCHANGED <<goal, submitted>>

\* Lines 65-85, up to the await: push the User message, build the request
\* from a clone of self.messages and send it.
push_user_stale ==
  /\ pc = "push"
  /\ messages' = Append(messages,
                        UserMessage(goal, arg[1].url, arg[1].page_content))
  /\ submitted' = messages
  /\ requests' = requests + 1
  /\ pc' = "await"
  /\ UNCHANGED <<goal, url, arg, response, result, action, maintained>>
push_user ==
  /\ pc = "push"
  /\ messages' = Append(messages,
                        UserMessage(goal, arg[1].url, arg[1].page_content))
  /\ submitted' = messages'
  /\ requests' = requests + 1
  /\ pc' = "await"
  /\ UNCHANGED <<goal, url, arg, response, result, action, maintained>>

\* Line 85: create(..).await? returns Err.
completion_error_rollback ==
  /\ pc = "await"
  /\ result' = "CompletionFailed"
  /\ action' = None
  /\ messages' = SubSeq(messages, 1, Len(messages) - 1)
  /\ pc' = "idle"
  /\ UNCHANGED <<goal, url, arg, response, maintained, requests, submitted>>
completion_error ==
  /\ pc = "await"
  /\ result' = "CompletionFailed"
  /\ action' = None
  /\ pc' = "idle"
  /\ UNCHANGED <<goal, url, messages, arg, response, maintained, requests,
                 submitted>>

\* A variant that stores the text of a decoded GOAL action in self.goal.
completion_response_setgoal ==
  /\ pc = "await"
  /\ \E resp \in Responses :
       /\ response' = Some(resp)
       /\ IF resp.usage = None
            THEN /\ pc' = "crashed"
                 /\ result' = "Panic"
                 /\ action' = None
                 /\ UNCHANGED <<messages, goal>>
            ELSE LET choice == FirstChoice(resp.choices) IN
                 IF choice = None
                   THEN /\ pc' = "idle"
                        /\ result' = "NoCompletionChoice"
                        /\ action' = None
                        /\ UNCHANGED <<messages, goal>>
                   ELSE LET decoded == Decode(choice[1].content) IN
                        /\ messages' = Append(messages, ReplyMessage(choice[1]))
                        /\ pc' = "idle"
                        /\ action' = decoded
                        /\ result' = IF decoded = None
                                       THEN "ActionDecodeFailed"
                                       ELSE "Ok"
                        /\ goal' = IF decoded # None /\ decoded[1].kind = "Goal"
                                     THEN decoded[1].text
                                     ELSE goal
  /\ UNCHANGED <<url, arg, maintained, requests, submitted>>
\* Lines 85-108: create(..).await? returns Ok(response).
completion_response ==
  /\ pc = "await"
  /\ \E resp \in Responses :
       /\ response' = Some(resp)
       /\ IF resp.usage = None
            THEN \* line 91: expect() panics
                 /\ pc' = "crashed"
                 /\ result' = "Panic"
                 /\ action' = None
                 /\ UNCHANGED messages
            ELSE LET choice == FirstChoice(resp.choices) IN
                 IF choice = None
                   THEN \* line 98: ok_or_else(..)?
                        /\ pc' = "idle"
                        /\ result' = "NoCompletionChoice"
                        /\ action' = None
                        /\ UNCHANGED messages
                   ELSE /\ messages' = Append(messages, ReplyMessage(choice[1]))
                        /\ pc' = "idle"
                        /\ action' = Decode(choice[1].content)
                        /\ result' = IF Decode(choice[1].content) = None
                                       THEN "ActionDecodeFailed"
                                       ELSE "Ok"
  /\ UNCHANGED <<goal, url, arg, maintained, requests, submitted>>

Next ==
  \/ request_action
  \/ push_user
  \/ completion_error
  \/ completion_response

Spec == Init /\ [][Next]_vars

TypeOK ==
  /\ goal = DefaultGoal
  /\ pc \in {"idle", "push", "await", "crashed"}
  /\ result \in {"None", "Ok", "InvalidUrl", "CompletionFailed",
                 "NoCompletionChoice", "ActionDecodeFailed", "Panic"}
  /\ requests \in 0..1

(***************************************************************************)
(* Properties.                                                             *)
(***************************************************************************)
\* The User message this call is expected to push, written out from the
\* call's arguments.
ThisCallUser ==
  [role |-> "user",
   content |-> <<"OBJECTIVE: ", goal, "\nCURRENT URL: ", arg[1].url,
                 "\nPAGE CONTENT: ", arg[1].page_content>>]

\* The call has returned (or the process has panicked).
Finished == pc \in {"idle", "crashed"}

\* C1: history is never empty and its first entry is always the fixed System
\* message of construction, whatever calls were made and however they ended.
C1_SystemMessageInvariant ==
  /\ Len(messages) >= 1
  /\ messages[1] = SystemMessage
  /\ messages[1].role = "system"

\* A call on a new host after a call that failed to decode: the reset kept
\* the System message and the new User message follows it.
C1_Witness ==
  /\ pc = "await"
  /\ result = "ActionDecodeFailed"
  /\ Len(messages) = 2
  /\ messages[1] = SystemMessage

\* C2: a call with a parseable URL while no URL is stored, or whose host
\* differs from the stored one, leaves exactly <<System message>> as the
\* history to which the User message is then appended.
C2_HostChangeReset ==
  [][ (/\ pc = "idle"
       /\ pc' = "push"
       /\ (url = None \/ url[1].host # url'[1].host))
      => (/\ Len(messages') = 1
          /\ messages' = <<SystemMessage>>) ]_vars

\* After a successful call (history of at least three entries) a call on
\* b.example stands right before its User append with only the System message.
C2_Witness ==
  /\ pc = "push"
  /\ result = "Ok"
  /\ url[1].host = Some("b.example")
  /\ messages = <<SystemMessage>>

\* C3: after a successful call, context maintenance of a call whose URL has
\* the same host as the stored URL leaves history unmodified.
C3_SameHostGrowth ==
  [][ (/\ pc = "idle"
       /\ result = "Ok"
       /\ pc' = "push"
       /\ url # None
       /\ url[1].host = url'[1].host)
      => messages' = messages ]_vars

\* A second call on a.example with another scheme, port and path than the
\* first one keeps the three entries of the first call.
C3_Witness ==
  /\ pc = "push"
  /\ result = "Ok"
  /\ Len(messages) = 3
  /\ url[1].host = Some("a.example")
  /\ url[1].port = Some("8080")
  /\ messages[2].content[4] # arg[1].url

\* C4: a call whose URL does not parse returns InvalidUrl at once, with
\* history and the stored URL as they were and no completion request issued.
C4_AtomicUrlFailure ==
  [][ (/\ pc = "idle"
       /\ arg' # None
       /\ ~UrlParse(arg'[1].url).ok)
      => (/\ pc' = "idle"
          /\ result' = "InvalidUrl"
          /\ messages' = messages
          /\ url' = url
          /\ requests' = 0
          /\ submitted' = submitted) ]_vars

\* An unparseable URL after a successful call: three entries and the host
\* are still there.
C4_Witness ==
  /\ pc = "idle"
  /\ result = "InvalidUrl"
  /\ ~UrlParse(arg[1].url).ok
  /\ Len(messages) = 3
  /\ url # None

\* C5: a response with zero choices makes the call fail with
\* NoCompletionChoice, with no reply appended: history ends with this call's
\* User message.
C5_EmptyChoiceFailure ==
  (/\ Finished
   /\ response # None
   /\ response[1].choices = <<>>)
  => (/\ result = "NoCompletionChoice"
      /\ messages = Append(maintained, ThisCallUser))

\* C6: a response without usage does not crash or abort the call: the call
\* ends as it would with usage present.
C6_MissingUsageNotFatal ==
  (/\ Finished
   /\ response # None
   /\ response[1].usage = None)
  => (/\ pc # "crashed"
      /\ result \in {"Ok", "NoCompletionChoice", "ActionDecodeFailed"}
      /\ (response[1].choices = <<>> <=> result = "NoCompletionChoice"))

\* C7: when the completion call fails, the call returns CompletionFailed and
\* history is what it was while awaiting: it ends with this call's User
\* message and no reply is appended.
C7_CompletionFailure ==
  [][ (/\ pc = "await"
       /\ response' = None)
      => (/\ pc' = "idle"
          /\ result' = "CompletionFailed"
          /\ action' = None
          /\ messages' = messages
          /\ messages' = Append(maintained', ThisCallUser')) ]_vars

\* A failed completion on the second call of a same-host session.
C7_Witness ==
  /\ pc = "idle"
  /\ result = "CompletionFailed"
  /\ Len(messages) = 4
  /\ Last(messages) = ThisCallUser

\* C8: when the reply text is not decodable the call fails with
\* ActionDecodeFailed and history ends with this call's User message
\* followed by the reply.
C8_DecodeFailureKeepsReply ==
  (/\ Finished
   /\ response # None
   /\ response[1].choices # <<>>
   /\ Decode(response[1].choices[1].content) = None)
  => (/\ result = "ActionDecodeFailed"
      /\ messages = maintained \o <<ThisCallUser, response[1].choices[1]>>)

\* C9: a call that returns an Action leaves history equal to the history
\* after context maintenance plus this call's User message and the reply,
\* in that order; while awaiting, only the User message has been added.
C9_SuccessfulCallEffect ==
  /\ (pc = "await" => messages = Append(maintained, ThisCallUser))
  /\ (pc = "idle" /\ result = "Ok")
       => (/\ action # None
           /\ response # None
           /\ response[1].choices # <<>>
           /\ Len(messages) = Len(maintained) + 2
           /\ messages = maintained \o
                           <<ThisCallUser, response[1].choices[1]>>)

\* The second successful call of a same-host session: five entries, the
\* first three being the first call's.
C9_Witness ==
  /\ pc = "idle"
  /\ result = "Ok"
  /\ Len(messages) = 5
  /\ Len(maintained) = 3
  /\ Len(response[1].choices) = 2
  /\ response[1].choices[1] # response[1].choices[2]

\* C10: a call whose URL parses issues exactly one completion request, and
\* the messages submitted are the full history at that moment: System message
\* first, this call's User message last, context maintenance applied.
C10_RequestProtocol ==
  /\ requests <= 1
  /\ (pc = "push" => requests = 0)
  /\ (pc = "await" => submitted = messages)
  /\ (pc = "await" \/ (Finished /\ result \notin {"None", "InvalidUrl"}))
       => (/\ requests = 1
           /\ submitted = Append(maintained, ThisCallUser)
           /\ submitted[1] = SystemMessage
           /\ Last(submitted) = ThisCallUser)
  /\ (pc = "idle" /\ result = "InvalidUrl") => requests = 0

\* The request of a same-host follow-up call carries the whole earlier
\* exchange.
C10_Witness ==
  /\ pc = "await"
  /\ requests = 1
  /\ Len(submitted) = 4
  /\ result = "Ok"

\* C11: every failing call returns exactly one of the four error kinds, the
\* one of its first failing step (URL parse, completion call, empty choice
\* list, decode), and no failure terminates the process.
C11_ErrorKindsByStep ==
  /\ pc # "crashed"
  /\ result \in {"None", "Ok", "InvalidUrl", "CompletionFailed",
                 "NoCompletionChoice", "ActionDecodeFailed"}
  /\ (Finished /\ arg # None)
       => LET parsed == UrlParse(arg[1].url) IN
          /\ (result = "InvalidUrl" <=> ~parsed.ok)
          /\ (result = "CompletionFailed" <=> (parsed.ok /\ response = None))
          /\ (result = "NoCompletionChoice"
                <=> (response # None /\ response[1].choices = <<>>))
          /\ (result = "ActionDecodeFailed"
                <=> (/\ response # None
                     /\ response[1].choices # <<>>
                     /\ Decode(response[1].choices[1].content) = None))

\* C12: no step of request_action changes goal, whatever the outcome; the
\* User message pushed by a call carries the goal of construction, also when
\* the previous call returned a decoded Goal(text).
C12_GoalReadOnly ==
  [][ /\ goal' = goal
      /\ (pc = "push" /\ pc' = "await")
           => (/\ Last(messages').role = "user"
               /\ Last(messages').content[2] = DefaultGoal) ]_vars

\* The call after one that returned Goal("find pricing") has pushed its User
\* message, and the objective in it is still the default goal.
C12_Witness ==
  /\ pc = "await"
  /\ result = "Ok"
  /\ action = Some([kind |-> "Goal", id |-> 0, text |-> "find pricing"])
  /\ Len(messages) = 4
  /\ goal = DefaultGoal
  /\ Last(messages).content[2] = "Visit 10 webpages."

\* C13: a call whose URL parses stores that URL (and so its host) before the
\* completion request is issued, and no later step of the call changes it;
\* so after a call that failed at the completion, empty-choice or decode
\* step, a call on the same host as the failed one leaves history as it is.
C13_HostUpdatedBeforeRequest ==
  [][ /\ (pc = "idle" /\ pc' = "push")
           => (/\ url' = Some(UrlParse(arg'[1].url).url)
               /\ requests' = 0)
      /\ (pc \in {"push", "await"}) => url' = url
      /\ (/\ pc = "idle"
          /\ result \in {"CompletionFailed", "NoCompletionChoice",
                         "ActionDecodeFailed"}
          /\ pc' = "push"
          /\ UrlParse(arg'[1].url).url.host = UrlParse(arg[1].url).url.host)
           => (/\ messages' = messages
               /\ Len(messages') >= 2) ]_vars

\* A second call on b.example after a first one there that got no choice:
\* the unanswered User message of the failed call is kept.
C13_Witness ==
  /\ pc = "push"
  /\ result = "NoCompletionChoice"
  /\ url[1].host = Some("b.example")
  /\ Len(messages) = 2
  /\ messages[2].role = "user"

\* C14 (as stated): when a call succeeds right after a call whose completion
\* failed, the unanswered User message of the failed call is still in
\* history, was part of the messages submitted, and is followed by this
\* call's User message and reply.
C14_UnansweredUserKept ==
  [][ (/\ pc = "await"
       /\ result = "CompletionFailed"
       /\ result' = "Ok")
      => (/\ Len(submitted) >= 3
          /\ submitted[Len(submitted) - 1].role = "user"
          /\ Len(messages') >= 4
          /\ messages'[Len(messages') - 2] = submitted[Len(submitted) - 1]) ]_vars

\* C14 (amended): only a context reset removes the unanswered User message
\* of a failed completion call.  No step other than the maintenance of a
\* call whose host differs from the stored one removes or changes an entry
\* of history; and when the call after the failed one keeps the host (its
\* history after maintenance has more than the System message) and succeeds,
\* the unanswered message was submitted and is followed in history by this
\* call's User message and then its reply.
C14_UnansweredUserKeptOnSameHost ==
  [][ /\ (/\ pc = "idle"
          /\ url # None
          /\ arg' # None
          /\ UrlParse(arg'[1].url).ok
          /\ UrlParse(arg'[1].url).url.host = url[1].host)
           => messages' = messages
      /\ (pc = "idle" /\ arg' # None /\ ~UrlParse(arg'[1].url).ok)
           => messages' = messages
      /\ (pc \in {"push", "await"})
           => (/\ Len(messages') >= Len(messages)
               /\ SubSeq(messages', 1, Len(messages)) = messages)
      /\ (pc = "await" /\ result' = "CompletionFailed" /\ pc' = "idle")
           => Last(messages').role = "user"
      /\ (/\ pc = "await"
          /\ result = "CompletionFailed"
          /\ Len(maintained) > 1
          /\ result' = "Ok")
           => (/\ Last(maintained).role = "user"
               /\ submitted[Len(maintained)] = Last(maintained)
               /\ Len(submitted) = Len(maintained) + 1
               /\ messages' = maintained \o
                     <<ThisCallUser, response'[1].choices[1]>>) ]_vars

\* A same-host call right after a failed completion has submitted its
\* request: the unanswered User message of the failed call is in it, before
\* this call's User message.
C14_Witness ==
  /\ pc = "await"
  /\ result = "CompletionFailed"
  /\ Len(maintained) = 2
  /\ maintained[2].role = "user"
  /\ submitted = Append(maintained, ThisCallUser)

\* C15: the message appended from the response is its first choice, role and
\* content as the service sent them; further choices leave nothing in
\* history; and the decoded text is the content that was appended.
C15_ReplySelection ==
  (pc = "idle" /\ result \in {"Ok", "ActionDecodeFailed"})
  => (/\ response # None
      /\ Len(response[1].choices) >= 1
      /\ Len(messages) = Len(maintained) + 2
      /\ Last(messages).role = response[1].choices[1].role
      /\ Last(messages).content = response[1].choices[1].content
      /\ messages[Len(messages) - 1].role = "user"
      /\ action = Decode(Last(messages).content)
      /\ (result = "Ok" <=> action # None))

\* Two choices, the first with role system: it is the one appended, with
\* that role, and its TYPE command is the action returned.
C15_Witness ==
  /\ pc = "idle"
  /\ result = "Ok"
  /\ Len(response[1].choices) = 2
  /\ response[1].choices[1].role = "system"
  /\ response[1].choices[2].role = "assistant"
  /\ Last(messages).role = "system"
  /\ action = Some([kind |-> "Type", id |-> 5, text |-> "hello"])

\* Entries of a history by role: the User messages, and the replies (the
\* entries after the first that are not User messages).
UserIndexes(h) == {i \in 1..Len(h) : h[i].role = "user"}
ReplyIndexes(h) == {i \in 2..Len(h) : h[i].role # "user"}

Pairing(h) ==
  /\ (Len(h) >= 2 => h[2].role = "user")
  /\ \A i \in ReplyIndexes(h) : h[i - 1].role = "user"
  /\ \A i \in ReplyIndexes(h) : (i + 1) \notin ReplyIndexes(h)
  /\ Cardinality(ReplyIndexes(h)) <= Cardinality(UserIndexes(h))

\* C16: in every history reached, each reply sits right after a User
\* message, pushed by the same call; no two replies are adjacent; the second
\* entry is a User message; replies never outnumber User messages; and a User
\* message is pushed onto a trailing User message only when the last call
\* that returned did not append a reply.
C16_PairingInvariant ==
  [][ /\ Pairing(messages')
      /\ (pc = "await" /\ Len(messages') > Len(messages))
           => (/\ messages = Append(maintained, ThisCallUser)
               /\ messages' = Append(messages, response'[1].choices[1]))
      /\ (pc' = "idle" /\ result' \in {"Ok", "ActionDecodeFailed"})
           => Len(messages') \in ReplyIndexes(messages')
      /\ (/\ pc = "push"
          /\ Len(messages) > 1
          /\ Last(messages).role = "user")
           => (/\ result \in {"CompletionFailed", "NoCompletionChoice",
                              "InvalidUrl"}
               /\ Last(messages').role = "user") ]_vars

\* Two adjacent User messages followed by a reply, after a call that failed
\* before its reply and a successful same-host call.
C16_Witness ==
  /\ pc = "idle"
  /\ result = "Ok"
  /\ Len(messages) = 4
  /\ messages[2].role = "user"
  /\ messages[3].role = "user"
  /\ messages[4].role = "system"

\* C17: a URL that parses without a host is accepted, and its absent host is
\* compared like a host: after a host-less URL, a host-less URL keeps
\* history and a URL with a host resets it; after a URL with a host, or on
\* the first call, a host-less URL resets it.
C17_HostlessUrls ==
  [][ (/\ pc = "idle"
       /\ arg' # None
       /\ UrlParse(arg'[1].url).ok)
      => LET new == UrlParse(arg'[1].url).url IN
         /\ (new.host = None
               => (/\ pc' = "push"
                   /\ url' = Some(new)
                   /\ (url # None /\ url[1].host = None)
                        => messages' = messages
                   /\ (url = None \/ url[1].host # None)
                        => messages' = <<SystemMessage>>))
         /\ (new.host # None /\ url # None /\ url[1].host = None)
               => (/\ pc' = "push"
                   /\ messages' = <<SystemMessage>>) ]_vars

\* A data: URL after a successful call on a mailto: URL: both lack a host
\* and the three entries of the first call are kept.
C17_Witness ==
  /\ pc = "push"
  /\ result = "Ok"
  /\ url[1].host = None
  /\ url[1].scheme = "data"
  /\ Len(messages) = 3
  /\ messages[2].content[4] = <<"mailto", ":", "agent@a.example">>

====
